---- MODULE Spec2Model ----
(***************************************************************************)
(* A model of the training-log application in src/app.py: the Workout      *)
(* table, the request handlers that write it (log_workout_submit,          *)
(* delete_workout) and the analytics the dashboard computes from it        *)
(* (phase_for, week_range, sum_week_metrics, risk_flags, readiness_score). *)
(*                                                                         *)
(* Dates are proleptic Gregorian ordinals, as Python's date.toordinal().   *)
(* Python floats are modelled as exact rationals <<n, d>> in lowest terms  *)
(* with d > 0; rounding is round-half-to-even as Python's round().  The    *)
(* binary rounding error of IEEE doubles is not modelled.                  *)
(*                                                                         *)
(* The dict risk_flags returns is modelled by its set of keys (each key    *)
(* has one fixed message).  The read-only pages /workouts and /settings    *)
(* are not modelled.  trip is a history variable: it is written by the     *)
(* two writing handlers and read by no handler.                            *)
(***************************************************************************)
EXTENDS Integers, Sequences, FiniteSets, TLC

VARIABLES
    db,      \* the Workout table: a function from primary key to row
    today,   \* date.today(), an ordinal
    page,    \* the response to the last request
    trip     \* history: the week aggregate before the last successful insert

vars == <<db, today, page, trip>>

----------------------------------------------------------------------------
(* Bounds of the model. *)

MaxRows == 2
NumYears == 2

MaxId == MaxRows + 1

----------------------------------------------------------------------------
(* Exact rational arithmetic standing for Python float arithmetic. *)

Abs(x) == IF x < 0 THEN -x ELSE x

RECURSIVE GCD(_, _)
GCD(a, b) == IF b = 0 THEN a ELSE GCD(b, a % b)

R(n, d) ==
    LET s == IF d < 0 THEN -1 ELSE 1
        g == GCD(Abs(n), Abs(d))
    IN  <<(s * n) \div g, (s * d) \div g>>

float(i) == <<i, 1>>
RAdd(a, b) == R(a[1] * b[2] + b[1] * a[2], a[2] * b[2])
RSub(a, b) == R(a[1] * b[2] - b[1] * a[2], a[2] * b[2])
RMul(a, b) == R(a[1] * b[1], a[2] * b[2])
RDiv(a, b) == R(a[1] * b[2], a[2] * b[1])
RLt(a, b) == a[1] * b[2] < b[1] * a[2]
RLe(a, b) == a[1] * b[2] <= b[1] * a[2]

(* round(x) for a rational x: nearest integer, ties to the even one. *)
round(x) ==
    LET q == x[1] \div x[2]
        r == x[1] % x[2]
    IN  IF 2 * r < x[2] THEN q
        ELSE IF 2 * r > x[2] THEN q + 1
        ELSE IF q % 2 = 0 THEN q ELSE q + 1

(* round(x, 1): nearest multiple of 1/10, ties to the even one. *)
round1(x) == R(round(RMul(x, float(10))), 10)

max2(a, b) == IF a >= b THEN a ELSE b
min2(a, b) == IF a <= b THEN a ELSE b

----------------------------------------------------------------------------
(* datetime.date: ordinals, construction from year/month/day, .year,       *)
(* .weekday().                                                            *)

IsLeap(y) == y % 4 = 0 /\ (y % 100 # 0 \/ y % 400 = 0)

DaysBeforeYear(y) ==
    LET p == y - 1 IN p * 365 + (p \div 4) - (p \div 100) + (p \div 400)

DaysInMonth(y, m) ==
    IF m = 2 THEN (IF IsLeap(y) THEN 29 ELSE 28)
    ELSE IF m \in {4, 6, 9, 11} THEN 30 ELSE 31

RECURSIVE DaysBeforeMonth(_, _)
DaysBeforeMonth(y, m) ==
    IF m = 1 THEN 0 ELSE DaysBeforeMonth(y, m - 1) + DaysInMonth(y, m - 1)

date(y, m, d) == DaysBeforeYear(y) + DaysBeforeMonth(y, m) + d

year(d) ==
    LET n0 == d - 1
        n400 == n0 \div 146097
        r400 == n0 % 146097
        n100 == r400 \div 36524
        r100 == r400 % 36524
        n4 == r100 \div 1461
        r4 == r100 % 1461
        n1 == r4 \div 365
        y == n400 * 400 + 1 + n100 * 100 + n4 * 4 + n1
    IN  IF n1 = 4 \/ n100 = 4 THEN y - 1 ELSE y

weekday(d) == (d + 6) % 7

----------------------------------------------------------------------------
(* Periodization. *)

PhaseTargets(name, vert_min, vert_max, long_min, long_max, pack_min, pack_max) ==
    [name |-> name, vert_min |-> vert_min, vert_max |-> vert_max,
     long_min |-> long_min, long_max |-> long_max,
     pack_min |-> pack_min, pack_max |-> pack_max]

(* Variant of phase_for with the boundary days in the earlier phase. *)
phase_for_inclusive(d) ==
    LET y == year(d)
        apr1 == date(y, 4, 1)
        jun1 == date(y, 6, 1)
        aug1 == date(y, 8, 1)
    IN  IF d <= apr1 THEN PhaseTargets("Base", 1500, 2000, 45, 60, 0, 5)
        ELSE IF d <= jun1 THEN PhaseTargets("Build", 3000, 4500, 60, 75, 10, 20)
        ELSE IF d <= aug1 THEN PhaseTargets("Peak", 6000, 9000, 75, 90, 20, 35)
        ELSE PhaseTargets("Taper", 2000, 3000, 45, 60, 0, 15)

phase_for(d) ==
    LET y == year(d)
        apr1 == date(y, 4, 1)
        jun1 == date(y, 6, 1)
        aug1 == date(y, 8, 1)
    IN  IF d < apr1 THEN PhaseTargets("Base", 1500, 2000, 45, 60, 0, 5)
        ELSE IF d < jun1 THEN PhaseTargets("Build", 3000, 4500, 60, 75, 10, 20)
        ELSE IF d < aug1 THEN PhaseTargets("Peak", 6000, 9000, 75, 90, 20, 35)
        ELSE PhaseTargets("Taper", 2000, 3000, 45, 60, 0, 15)

----------------------------------------------------------------------------
(* Text: a Python str is a sequence of one-character strings. *)

UpperLetters ==
    <<"A","B","C","D","E","F","G","H","I","J","K","L","M",
      "N","O","P","Q","R","S","T","U","V","W","X","Y","Z">>

LowerLetters ==
    <<"a","b","c","d","e","f","g","h","i","j","k","l","m",
      "n","o","p","q","r","s","t","u","v","w","x","y","z">>

lower_char(c) ==
    IF \E i \in 1..26 : UpperLetters[i] = c
    THEN LowerLetters[CHOOSE i \in 1..26 : UpperLetters[i] = c]
    ELSE c

lower(n) == [i \in 1..Len(n) |-> lower_char(n[i])]

(* k in n *)
contains(n, k) ==
    \E i \in 0..(Len(n) - Len(k)) : SubSeq(n, i + 1, i + Len(k)) = k

RECURSIVE lstrip(_)
lstrip(n) == IF n # <<>> /\ Head(n) = " " THEN lstrip(Tail(n)) ELSE n

RECURSIVE rstrip(_)
rstrip(n) ==
    IF n # <<>> /\ n[Len(n)] = " " THEN rstrip(SubSeq(n, 1, Len(n) - 1)) ELSE n

strip(n) == rstrip(lstrip(n))

----------------------------------------------------------------------------
(* The Workout model. A row is                                             *)
(*   [session_date, type, duration_min, distance_mi, incline_pct, pack_lb, *)
(*    rpe, notes]                                                          *)
(* with the Float columns as rationals and notes = [null, text].           *)

NULL == [null |-> TRUE, text |-> <<>>]
Text(n) == [null |-> FALSE, text |-> n]

vertical_ft(w) ==
    RMul(RMul(w.distance_mi, float(5280)), RDiv(w.incline_pct, float(100)))

load_score(w) ==
    RMul(vertical_ft(w), RAdd(float(1), RDiv(w.pack_lb, float(50))))

session_stress(w) ==
    LET load_factor == RAdd(float(1), RDiv(w.pack_lb, float(40)))
    IN  RMul(float(w.duration_min * max2(w.rpe, 1)), load_factor)

----------------------------------------------------------------------------
(* Queries. *)

(* Keys in ascending session_date order (ties by key). *)
RECURSIVE order_by_session_date(_)
order_by_session_date(S) ==
    IF S = {} THEN <<>>
    ELSE LET i == CHOOSE i \in S : \A j \in S :
                      \/ db[i].session_date < db[j].session_date
                      \/ db[i].session_date = db[j].session_date /\ i <= j
         IN  <<db[i]>> \o order_by_session_date(S \ {i})

RECURSIVE fsum(_)
fsum(xs) == IF xs = <<>> THEN float(0) ELSE RAdd(Head(xs), fsum(Tail(xs)))

RECURSIVE isum(_)
isum(xs) == IF xs = <<>> THEN 0 ELSE Head(xs) + isum(Tail(xs))

RECURSIVE imax(_, _)
imax(xs, default) ==
    IF xs = <<>> THEN default ELSE max2(Head(xs), imax(Tail(xs), Head(xs)))

week_range(d) ==
    LET start == d - weekday(d)
        end == start + 7
    IN  <<start, end>>

(* Variant of sum_week_metrics over the closed window [start, end]. *)
sum_week_metrics_closed(start, end) ==
    LET rows == order_by_session_date(
                    {i \in DOMAIN db : /\ db[i].session_date >= start
                                       /\ db[i].session_date <= end})
        n == Len(rows)
    IN  [vert |-> fsum([k \in 1..n |-> vertical_ft(rows[k])]),
         stress |-> fsum([k \in 1..n |-> session_stress(rows[k])]),
         avg_pack |-> IF n # 0
                      THEN RDiv(fsum([k \in 1..n |-> rows[k].pack_lb]), float(n))
                      ELSE float(0),
         max_long |-> imax([k \in 1..n |-> rows[k].duration_min], 0),
         count |-> n,
         missed |-> 0]

sum_week_metrics(start, end) ==
    LET rows == order_by_session_date(
                    {i \in DOMAIN db : /\ db[i].session_date >= start
                                       /\ db[i].session_date < end})
        n == Len(rows)
        vert == fsum([k \in 1..n |-> vertical_ft(rows[k])])
        stress == fsum([k \in 1..n |-> session_stress(rows[k])])
        avg_pack == IF n # 0
                    THEN RDiv(fsum([k \in 1..n |-> rows[k].pack_lb]), float(n))
                    ELSE float(0)
        max_long == imax([k \in 1..n |-> rows[k].duration_min], 0)
        missed == 0
    IN  [vert |-> vert, stress |-> stress, avg_pack |-> avg_pack,
         max_long |-> max_long, count |-> n, missed |-> missed]

(* date.today() is the variable today; the week label is the week's start. *)
last_n_weeks_series(n) ==
    LET start_this_week == week_range(today)[1]
        ws(k) == start_this_week - 7 * (n - k)
        m(k) == sum_week_metrics(ws(k), ws(k) + 7)
    IN  [weeks |-> [k \in 1..n |-> ws(k)],
         verts |-> [k \in 1..n |-> round(m(k).vert)],
         packs |-> [k \in 1..n |-> round1(m(k).avg_pack)],
         stresses |-> [k \in 1..n |-> round1(m(k).stress)]]

----------------------------------------------------------------------------
(* Risk flags: the set of keys of the dict risk_flags returns (each key    *)
(* has one fixed message).                                                  *)

keywords ==
    <<  <<"p","a","i","n">>, <<"k","n","e","e">>, <<"f","o","o","t">>,
        <<"s","h","i","n">>, <<"a","c","h","i","l","l","e","s">>,
        <<"h","i","p">>  >>

(* Variant of overuse_vertical with >= for >. *)
overuse_vertical_not_strict(this, prev) ==
    RLt(float(0), prev.vert) /\ RLe(RMul(prev.vert, R(125, 100)), this.vert)

overuse_vertical(this, prev) ==
    RLt(float(0), prev.vert) /\ RLt(RMul(prev.vert, R(125, 100)), this.vert)

overuse_pack(this, prev) ==
    RLt(float(5), RSub(this.avg_pack, prev.avg_pack))

overuse_rpe(t) ==
    LET seven_days_ago == t - 7
        rows == order_by_session_date(
                    {i \in DOMAIN db : /\ db[i].session_date >= seven_days_ago
                                       /\ db[i].session_date <= t})
        n == Len(rows)
        is_none == (n = 0)
        rpe_avg == RDiv(float(isum([k \in 1..n |-> rows[k].rpe])), float(max2(n, 1)))
    IN  ~is_none /\ RLe(float(7), rpe_avg)

(* Variant of undertraining with one week below target enough. *)
undertraining_either_week(t, this, prev) ==
    LET tgt == phase_for(t)
        this_ratio == RDiv(this.vert, float(max2(tgt.vert_min, 1)))
        prev_ratio == RDiv(prev.vert, float(max2(tgt.vert_min, 1)))
    IN  RLt(this_ratio, R(7, 10)) \/ RLt(prev_ratio, R(7, 10))

undertraining(t, this, prev) ==
    LET tgt == phase_for(t)
        this_ratio == IF tgt.vert_min # 0
                      THEN RDiv(this.vert, float(max2(tgt.vert_min, 1)))
                      ELSE float(0)
        prev_ratio == IF tgt.vert_min # 0
                      THEN RDiv(prev.vert, float(max2(tgt.vert_min, 1)))
                      ELSE float(0)
    IN  RLt(this_ratio, R(7, 10)) /\ RLt(prev_ratio, R(7, 10))

injury_signal(t) ==
    LET fourteen_days_ago == t - 14
        recent_notes == {db[i].notes.text :
                            i \in {j \in DOMAIN db :
                                     /\ db[j].session_date >= fourteen_days_ago
                                     /\ ~db[j].notes.null}}
    IN  \E n \in recent_notes :
            /\ n # <<>>
            /\ \E k \in 1..Len(keywords) : contains(lower(n), keywords[k])

risk_flags(t) ==
    LET this_ws == week_range(t)[1]
        this_we == week_range(t)[2]
        prev_ws == this_ws - 7
        prev_we == this_we - 7
        this == sum_week_metrics(this_ws, this_we)
        prev == sum_week_metrics(prev_ws, prev_we)
    IN  (IF overuse_vertical(this, prev) THEN {"overuse_vertical"} ELSE {})
        \cup (IF overuse_pack(this, prev) THEN {"overuse_pack"} ELSE {})
        \cup (IF overuse_rpe(t) THEN {"overuse_rpe"} ELSE {})
        \cup (IF undertraining(t, this, prev) THEN {"undertraining"} ELSE {})
        \cup (IF injury_signal(t) THEN {"injury_signal"} ELSE {})

----------------------------------------------------------------------------
(* Readiness. *)

(* func.max(Workout.duration_min) over [start_4, t], "or 0". *)
longest_session(t) ==
    LET start_this_week == week_range(t)[1]
        start_4 == start_this_week - 28
        rows == order_by_session_date(
                    {i \in DOMAIN db : /\ db[i].session_date >= start_4
                                       /\ db[i].session_date <= t})
    IN  imax([k \in 1..Len(rows) |-> rows[k].duration_min], 0)

(* s * 100, before rounding and clamping, given max_long. *)
readiness_blend(t, max_long) ==
    LET series == last_n_weeks_series(4)
        verts == series.verts
        packs == series.packs
        four_week_avg_vert == RDiv(float(isum(verts)), float(max2(Len(verts), 1)))
        four_week_avg_pack == RDiv(fsum(packs), float(max2(Len(packs), 1)))
        tgt == phase_for(t)
        peak_target == IF tgt.name # "Peak" THEN float(9000) ELSE float(9000)
        goal_pack == float(30)
        s == RAdd(RAdd(RMul(RDiv(four_week_avg_vert, peak_target), R(4, 10)),
                       RMul(RDiv(four_week_avg_pack, goal_pack), R(3, 10))),
                  RMul(RDiv(float(max_long), float(90)), R(3, 10)))
    IN  RMul(s, float(100))

(* Variant of clamp without the upper bound. *)
clamp_unbounded(x) == max2(0, x)

clamp(x) == max2(0, min2(100, x))

readiness_score(t) == clamp(round(readiness_blend(t, longest_session(t))))

----------------------------------------------------------------------------
(* Request forms. A submitted field is [t, v]:                             *)
(*   t = "num"    text the field's parser accepts, v its parsed value      *)
(*                (a date ordinal, an integer, a rational, or for type     *)
(*                and notes the text itself);                              *)
(*   t = "text"   text the field's parser rejects;                         *)
(*   t = "blank"  the empty string;                                        *)
(*   t = "absent" the key is not in the form.                              *)

Num(v) == [t |-> "num", v |-> v]
Junk == [t |-> "text", v |-> 0]
Blank == [t |-> "blank", v |-> 0]
Absent == [t |-> "absent", v |-> 0]

Failure(msg) == [ok |-> FALSE, msg |-> msg, row |-> <<>>]

(* request.form[key] followed by a parser: KeyError when absent,           *)
(* ValueError when blank or unparsable.                                    *)
required_error(form, key) ==
    IF form[key].t = "absent" THEN <<"KeyError", key>>
    ELSE IF form[key].t # "num" THEN <<"ValueError", key>>
    ELSE <<>>

(* parser(request.form.get(key, default) or default) *)
optional_error(form, key) ==
    IF form[key].t = "text" THEN <<"ValueError", key>> ELSE <<>>

optional_value(form, key, default) ==
    IF form[key].t = "num" THEN form[key].v ELSE default

(* request.form.get("notes", "").strip() or None *)
notes_of(form) ==
    LET raw == IF form.notes.t = "num" THEN form.notes.v ELSE <<>>
        stripped == strip(raw)
    IN  IF stripped = <<>> THEN NULL ELSE Text(stripped)

WorkoutTypes == {"incline", "flat", "strength", "recovery"}

(* The try block of log_workout_submit up to the Workout(...) constructor: *)
(* the first exception raised, or the row to add.                          *)
(* Variant of validate without the RPE range check. *)
validate_no_rpe_check(form) ==
    LET parse_errors == <<required_error(form, "session_date"),
                          IF form.type.t = "absent" THEN <<"KeyError", "type">> ELSE <<>>,
                          required_error(form, "duration_min"),
                          optional_error(form, "distance_mi"),
                          optional_error(form, "incline_pct"),
                          optional_error(form, "pack_lb"),
                          optional_error(form, "rpe")>>
        failed == {k \in 1..Len(parse_errors) : parse_errors[k] # <<>>}
        wtype == IF form.type.t = "num" THEN form.type.v ELSE ""
        duration_min == form.duration_min.v
        distance_mi == optional_value(form, "distance_mi", float(0))
        incline_pct == optional_value(form, "incline_pct", float(0))
        pack_lb == optional_value(form, "pack_lb", float(0))
        rpe == optional_value(form, "rpe", 5)
    IN  IF failed # {}
        THEN Failure(parse_errors[CHOOSE k \in failed : \A j \in failed : k <= j])
        ELSE IF wtype \notin WorkoutTypes
        THEN Failure(<<"ValueError", "Invalid workout type.">>)
        ELSE IF duration_min <= 0
        THEN Failure(<<"ValueError", "Duration must be > 0.">>)
        ELSE IF \/ RLt(distance_mi, float(0))
                \/ RLt(incline_pct, float(0))
                \/ RLt(pack_lb, float(0))
        THEN Failure(<<"ValueError", "Distance, incline, and pack must be >= 0.">>)
        ELSE [ok |-> TRUE, msg |-> <<>>,
              row |-> [session_date |-> form.session_date.v,
                       type |-> wtype,
                       duration_min |-> duration_min,
                       distance_mi |-> distance_mi,
                       incline_pct |-> incline_pct,
                       pack_lb |-> pack_lb,
                       rpe |-> rpe,
                       notes |-> notes_of(form)]]

validate(form) ==
    LET parse_errors == <<required_error(form, "session_date"),
                          IF form.type.t = "absent" THEN <<"KeyError", "type">> ELSE <<>>,
                          required_error(form, "duration_min"),
                          optional_error(form, "distance_mi"),
                          optional_error(form, "incline_pct"),
                          optional_error(form, "pack_lb"),
                          optional_error(form, "rpe")>>
        failed == {k \in 1..Len(parse_errors) : parse_errors[k] # <<>>}
        wtype == IF form.type.t = "num" THEN form.type.v ELSE ""
        duration_min == form.duration_min.v
        distance_mi == optional_value(form, "distance_mi", float(0))
        incline_pct == optional_value(form, "incline_pct", float(0))
        pack_lb == optional_value(form, "pack_lb", float(0))
        rpe == optional_value(form, "rpe", 5)
    IN  IF failed # {}
        THEN Failure(parse_errors[CHOOSE k \in failed : \A j \in failed : k <= j])
        ELSE IF wtype \notin WorkoutTypes
        THEN Failure(<<"ValueError", "Invalid workout type.">>)
        ELSE IF duration_min <= 0
        THEN Failure(<<"ValueError", "Duration must be > 0.">>)
        ELSE IF ~(1 <= rpe /\ rpe <= 10)
        THEN Failure(<<"ValueError", "RPE must be 1-10.">>)
        ELSE IF \/ RLt(distance_mi, float(0))
                \/ RLt(incline_pct, float(0))
                \/ RLt(pack_lb, float(0))
        THEN Failure(<<"ValueError", "Distance, incline, and pack must be >= 0.">>)
        ELSE [ok |-> TRUE, msg |-> <<>>,
              row |-> [session_date |-> form.session_date.v,
                       type |-> wtype,
                       duration_min |-> duration_min,
                       distance_mi |-> distance_mi,
                       incline_pct |-> incline_pct,
                       pack_lb |-> pack_lb,
                       rpe |-> rpe,
                       notes |-> notes_of(form)]]

----------------------------------------------------------------------------
(* The table's writes. *)

(* The key of a new row of an INTEGER PRIMARY KEY column. *)
next_id == IF DOMAIN db = {} THEN 1
           ELSE 1 + CHOOSE i \in DOMAIN db : \A j \in DOMAIN db : j <= i

(* db.session.add(w); db.session.commit() *)
session_add(id, w) == [i \in DOMAIN db \cup {id} |-> IF i = id THEN w ELSE db[i]]

(* Variant of session_delete removing every row of the same date. *)
session_delete_same_date(id) ==
    [i \in {j \in DOMAIN db : db[j].session_date # db[id].session_date} |-> db[i]]

(* db.session.delete(w); db.session.commit() *)
session_delete(id) == [i \in DOMAIN db \ {id} |-> db[i]]

(* No insert to follow. *)
NoTrip == [stage |-> "none", id |-> 0, ws |-> 0, pre |-> <<>>]

----------------------------------------------------------------------------
(* Request handlers. *)

Redirect(to, category, message) ==
    [name |-> "redirect", to |-> to, flash |-> <<category, message>>]

(* POST /log *)
LogWorkoutSubmit(form) ==
    LET v == validate(form)
        ws == week_range(v.row.session_date)[1]
    IN  IF v.ok
        THEN /\ Cardinality(DOMAIN db) < MaxRows
             /\ next_id <= MaxId
             /\ db' = session_add(next_id, v.row)
             /\ page' = Redirect("workouts", "success", "Saved workout.")
             /\ trip' = [stage |-> "inserted", id |-> next_id, ws |-> ws,
                         pre |-> sum_week_metrics(ws, ws + 7)]
             /\ UNCHANGED today
        ELSE /\ page' = Redirect("log_workout_form", "error",
                                 <<"Could not save workout: ">> \o v.msg)
             /\ UNCHANGED <<db, today, trip>>

(* POST /workouts/<workout_id>/delete *)
DeleteWorkout(workout_id) ==
    IF workout_id \in DOMAIN db
    THEN /\ db' = session_delete(workout_id)
         /\ page' = Redirect("workouts", "success", "Deleted workout.")
         /\ trip' = IF trip.stage = "inserted" /\ trip.id = workout_id
                    THEN [trip EXCEPT !.stage = "deleted"]
                    ELSE NoTrip
         /\ UNCHANGED today
    ELSE /\ page' = [name |-> "404"]
         /\ UNCHANGED <<db, today, trip>>

(* GET / *)
Dashboard ==
    LET ws == week_range(today)[1]
        we == week_range(today)[2]
        metrics == sum_week_metrics(ws, we)
        tgt == phase_for(today)
        flags == risk_flags(today)
        score == readiness_score(today)
        series == last_n_weeks_series(12)
        target_mid == (tgt.vert_min + tgt.vert_max) \div 2
        progress == RMul(RDiv(metrics.vert, float(target_mid)), float(100))
        weekly_progress == IF target_mid = 0 THEN 0
                           ELSE min2(100, progress[1] \div progress[2])
    IN  /\ page' = [name |-> "dashboard", today |-> today, week_start |-> ws,
                    week_end |-> we - 1, metrics |-> metrics, target |-> tgt,
                    flags |-> flags, readiness |-> score,
                    weekly_progress |-> weekly_progress, series |-> series]
        /\ UNCHANGED <<db, today, trip>>

(* GET /log *)
LogWorkoutForm ==
    /\ page' = [name |-> "log", today |-> today, target |-> phase_for(today)]
    /\ UNCHANGED <<db, today, trip>>

(* Midnight, between two requests: date.today() moves on. *)
Tick ==
    /\ today < date(2024 + NumYears, 1, 1)
    /\ today' = today + 1
    /\ page' = [name |-> "none"]
    /\ UNCHANGED <<db, trip>>

----------------------------------------------------------------------------
(* Inputs. *)

Form(d, type, duration_min, distance_mi, incline_pct, pack_lb, rpe, notes) ==
    [session_date |-> d, type |-> type, duration_min |-> duration_min,
     distance_mi |-> distance_mi, incline_pct |-> incline_pct,
     pack_lb |-> pack_lb, rpe |-> rpe, notes |-> notes]

NoteOk == <<"o", "k">>
NoteKnee == <<"S", "o", "r", "e", " ", "K", "n", "e", "e", " ">>
NoteSpace == <<" ">>

(* Well-formed submissions around today: two on the same day, the Monday   *)
(* and the Sunday of this week, the Monday after, the week before, and one *)
(* far beyond the readiness anchors.                                       *)
ValidForms ==
    LET mon == today - weekday(today)
    IN  { Form(Num(today), Num("incline"), Num(60), Num(float(2)), Num(float(10)),
               Num(float(20)), Num(5), Num(NoteOk)),
          Form(Num(today), Num("flat"), Num(30), Num(float(3)), Blank,
               Absent, Blank, Num(NoteSpace)),
          Form(Num(mon), Num("incline"), Num(90), Num(float(3)), Num(float(20)),
               Num(float(25)), Num(7), Absent),
          Form(Num(mon + 7), Num("recovery"), Num(20), Num(float(1)), Num(float(5)),
               Num(float(0)), Num(1), Num(NoteKnee)),
          Form(Num(mon - 1), Num("strength"), Num(45), Absent, Absent,
               Num(R(25, 2)), Num(10), Blank),
          Form(Num(mon + 6), Num("incline"), Num(600), Num(float(40)), Num(float(100)),
               Num(float(200)), Num(10), Num(NoteOk)) }

(* One well-formed submission with one or two fields replaced. *)
InvalidForms ==
    LET base == Form(Num(today), Num("incline"), Num(60), Num(float(2)),
                     Num(float(10)), Num(float(20)), Num(5), Num(NoteOk))
    IN  { [base EXCEPT !.type = Num("run")],
          [base EXCEPT !.type = Num("Incline")],
          [base EXCEPT !.type = Blank],
          [base EXCEPT !.type = Absent],
          [base EXCEPT !.duration_min = Num(0)],
          [base EXCEPT !.duration_min = Num(-5)],
          [base EXCEPT !.duration_min = Junk],
          [base EXCEPT !.rpe = Num(0)],
          [base EXCEPT !.rpe = Num(11)],
          [base EXCEPT !.distance_mi = Num(float(-1))],
          [base EXCEPT !.incline_pct = Num(R(-1, 2))],
          [base EXCEPT !.pack_lb = Num(float(-20))],
          [base EXCEPT !.session_date = Junk],
          [base EXCEPT !.type = Num("run"), !.rpe = Num(11)],
          [base EXCEPT !.rpe = Num(11), !.pack_lb = Num(float(-20))] }

Forms == ValidForms \cup InvalidForms

(* A session of v feet of vertical: v/528 miles at 10 %. *)
VertForm(d, v) ==
    Form(Num(d), Num("incline"), Num(60), Num(R(v, 528)), Num(float(10)),
         Num(float(10)), Num(5), Absent)

LoadForms ==
    { VertForm(d, v) : d \in {today - 7, today},
                       v \in {1000, 1049, 1050, 1250, 1251} }

WindowForms ==
    { Form(Num(today + off), Num("incline"), Num(p[1]), Num(float(1)), Num(float(10)),
           Num(float(10)), Num(p[2]), p[3]) :
        off \in {-34, -29, -28, -15, -14, -7, -6, 0, 1},
        p \in { <<90, 8, Num(NoteKnee)>>, <<30, 6, Absent>> } }

----------------------------------------------------------------------------
(* Specifications. *)

EmptyTable == [i \in {} |-> 0]

InitAt(d) ==
    /\ db = EmptyTable
    /\ today = d
    /\ page = [name |-> "none"]
    /\ trip = NoTrip

(* The application on one day, with well-formed and malformed submissions. *)
Init == InitAt(date(2024, 2, 14))

Next ==
    \/ \E form \in Forms : LogWorkoutSubmit(form)
    \/ \E workout_id \in 1..MaxId : DeleteWorkout(workout_id)
    \/ Dashboard
    \/ LogWorkoutForm

Spec == Init /\ [][Next]_vars

(* The calendar walked day by day over NumYears years. *)
InitPhase == InitAt(date(2024, 1, 1))

NextPhase == Tick \/ LogWorkoutForm

SpecPhase == InitPhase /\ [][NextPhase]_vars

(* Weekly vertical around the risk thresholds, in Base and in Taper. *)
InitLoad == \E d \in {date(2024, 2, 14), date(2024, 8, 14)} : InitAt(d)

NextLoad ==
    \/ \E form \in LoadForms : LogWorkoutSubmit(form)
    \/ \E workout_id \in 1..MaxId : DeleteWorkout(workout_id)
    \/ Dashboard

SpecLoad == InitLoad /\ [][NextLoad]_vars

(* Sessions at the edges of the trailing windows, seen on a Sunday. *)
InitWindows == InitAt(date(2024, 2, 18))

NextWindows ==
    \/ \E form \in WindowForms : LogWorkoutSubmit(form)
    \/ \E workout_id \in 1..MaxId : DeleteWorkout(workout_id)
    \/ Dashboard

SpecWindows == InitWindows /\ [][NextWindows]_vars

----------------------------------------------------------------------------
(* Vocabulary of the properties: the week and window of a date said with   *)
(* explicit day sets, and sums over sets of rows.                          *)

ThisMonday(d) == CHOOSE m \in (d - 6)..d : weekday(m) = 0

RowsDated(days) == {i \in DOMAIN db : db[i].session_date \in days}

RECURSIVE TotalVertical(_)
TotalVertical(S) ==
    IF S = {} THEN float(0)
    ELSE LET i == CHOOSE i \in S : TRUE
         IN  RAdd(vertical_ft(db[i]), TotalVertical(S \ {i}))

RECURSIVE TotalRpe(_)
TotalRpe(S) ==
    IF S = {} THEN 0
    ELSE LET i == CHOOSE i \in S : TRUE IN db[i].rpe + TotalRpe(S \ {i})

LongestOf(S) ==
    IF S = {} THEN 0
    ELSE LET i == CHOOSE i \in S : \A j \in S : db[j].duration_min <= db[i].duration_min
         IN  db[i].duration_min

MonthOf(d) ==
    CHOOSE m \in 1..12 :
        /\ date(year(d), m, 1) <= d
        /\ d < date(year(d), m, 1) + DaysInMonth(year(d), m)

DayOf(d) == d - date(year(d), MonthOf(d), 1) + 1

PhaseOfMonth(m) ==
    IF m \in 1..3 THEN PhaseTargets("Base", 1500, 2000, 45, 60, 0, 5)
    ELSE IF m \in 4..5 THEN PhaseTargets("Build", 3000, 4500, 60, 75, 10, 20)
    ELSE IF m \in 6..7 THEN PhaseTargets("Peak", 6000, 9000, 75, 90, 20, 35)
    ELSE PhaseTargets("Taper", 2000, 3000, 45, 60, 0, 15)

MentionsInjury(n) ==
    \E k \in 1..Len(keywords) : contains(lower(n), keywords[k])

ZeroMetrics ==
    [vert |-> float(0), stress |-> float(0), avg_pack |-> float(0),
     max_long |-> 0, count |-> 0, missed |-> 0]

----------------------------------------------------------------------------
(* Properties. *)

(* C1: every date's phase is the one of its month (Jan-Mar Base, Apr-May   *)
(* Build, Jun-Jul Peak, Aug-Dec Taper, with the spec's target numbers),    *)
(* and from one day to the next the phase changes exactly on Jan 1, Apr 1, *)
(* Jun 1 and Aug 1, in the order Base, Build, Peak, Taper, Base.           *)
C1_PhasePartition ==
    [][ /\ page'.name = "log" => page'.target = PhaseOfMonth(MonthOf(page'.today))
        /\ today' = today + 1 =>
             LET a == phase_for(today).name
                 b == phase_for(today').name
             IN  /\ (a # b) <=> /\ DayOf(today') = 1
                                /\ MonthOf(today') \in {1, 4, 6, 8}
                 /\ (a # b) => <<a, b>> \in { <<"Base", "Build">>, <<"Build", "Peak">>,
                                              <<"Peak", "Taper">>, <<"Taper", "Base">> }
      ]_vars

C1_Witness ==
    /\ page.name = "log"
    /\ page.today = date(2025, 4, 1)
    /\ page.target.name = "Build"

(* C2: once a record has been inserted and then that same record deleted,  *)
(* the aggregate of the record's week is what it was before the insert.    *)
C2_RoundTrip ==
    trip.stage = "deleted" => sum_week_metrics(trip.ws, trip.ws + 7) = trip.pre

C2_Witness ==
    /\ trip.stage = "deleted"
    /\ trip.pre.count > 0
    /\ page = Redirect("workouts", "success", "Deleted workout.")

(* What the validation is to turn away, said of the submitted fields. *)
C3_Rejectable(form) ==
    \/ form.type.t = "num" /\ form.type.v \notin {"incline", "flat", "strength", "recovery"}
    \/ form.duration_min.t = "num" /\ form.duration_min.v <= 0
    \/ form.rpe.t = "num" /\ (form.rpe.v < 1 \/ form.rpe.v > 10)
    \/ form.distance_mi.t = "num" /\ form.distance_mi.v[1] < 0
    \/ form.incline_pct.t = "num" /\ form.incline_pct.v[1] < 0
    \/ form.pack_lb.t = "num" /\ form.pack_lb.v[1] < 0

(* C3: a submission with a type outside the closed set, a duration <= 0,   *)
(* an RPE outside 1..10 or a negative distance, incline or pack is         *)
(* answered with an error and leaves the table as it was.                  *)
C3_RejectLeavesStore ==
    [][ \A form \in Forms :
          (C3_Rejectable(form) /\ LogWorkoutSubmit(form))
             => /\ db' = db
                /\ page'.name = "redirect"
                /\ page'.flash[1] = "error"
      ]_vars

C3_Witness ==
    /\ page = Redirect("log_workout_form", "error",
                       <<"Could not save workout: ", "ValueError", "RPE must be 1-10.">>)
    /\ DOMAIN db # {}

(* C4: injury_signal is raised exactly when a record dated within          *)
(* [today-14, today] has a note containing one of the keywords.            *)
C4_InjuryWindow ==
    page.name = "dashboard" =>
        (("injury_signal" \in page.flags) <=>
            \E i \in RowsDated((page.today - 14)..page.today) :
                ~db[i].notes.null /\ MentionsInjury(db[i].notes.text))

(* C5: overuse_rpe is raised exactly when [today-6, today] holds a record  *)
(* and the mean RPE of the records in it is >= 7.                          *)
C5_RpeWindow ==
    page.name = "dashboard" =>
        LET S == RowsDated((page.today - 6)..page.today)
        IN  ("overuse_rpe" \in page.flags) <=>
                (S # {} /\ TotalRpe(S) >= 7 * Cardinality(S))

(* C6: the score is the one blended from the longest session among the     *)
(* records dated within the 28 days before today and today.                *)
C6_DurationWindow ==
    page.name = "dashboard" =>
        page.readiness =
            clamp(round(readiness_blend(page.today,
                     LongestOf(RowsDated((page.today - 28)..page.today)))))

(* C7: overuse_vertical is raised exactly when the previous week's         *)
(* vertical is > 0 and this week's is > 1.25 times it; with 1000 the week  *)
(* before it is raised at 1251 and not at 1250.                            *)
C7_OveruseVertical ==
    page.name = "dashboard" =>
        LET m == ThisMonday(page.today)
            this == TotalVertical(RowsDated(m..(m + 6)))
            prev == TotalVertical(RowsDated((m - 7)..(m - 1)))
            raised == "overuse_vertical" \in page.flags
        IN  /\ raised <=> /\ prev[1] > 0
                          /\ 100 * this[1] * prev[2] > 125 * prev[1] * this[2]
            /\ (prev = float(1000) /\ this = float(1251)) => raised
            /\ (prev = float(1000) /\ this = float(1250)) => ~raised

C7_Witness ==
    /\ page.name = "dashboard"
    /\ TotalVertical(RowsDated((ThisMonday(page.today) - 7)..(ThisMonday(page.today) - 1)))
         = float(1000)
    /\ TotalVertical(RowsDated(ThisMonday(page.today)..(ThisMonday(page.today) + 6)))
         = float(1250)
    /\ "overuse_vertical" \notin page.flags

(* v is below 0.7 of the weekly vertical target of the phase of t. *)
C8_Below(v, t) == 10 * v[1] < 7 * max2(PhaseOfMonth(MonthOf(t)).vert_min, 1) * v[2]

(* C8: undertraining is raised exactly when this week's and the previous   *)
(* week's vertical are both below 0.7 of max(vert_min, 1) of today's       *)
(* phase.                                                                  *)
C8_Undertraining ==
    page.name = "dashboard" =>
        LET m == ThisMonday(page.today)
            this == TotalVertical(RowsDated(m..(m + 6)))
            prev == TotalVertical(RowsDated((m - 7)..(m - 1)))
        IN  ("undertraining" \in page.flags) <=>
                (C8_Below(this, page.today) /\ C8_Below(prev, page.today))

C8_Witness ==
    /\ page.name = "dashboard"
    /\ TotalVertical(RowsDated(ThisMonday(page.today)..(ThisMonday(page.today) + 6)))
         = float(1049)
    /\ TotalVertical(RowsDated((ThisMonday(page.today) - 7)..(ThisMonday(page.today) - 1)))
         = float(1050)
    /\ PhaseOfMonth(MonthOf(page.today)).name = "Base"
    /\ "undertraining" \notin page.flags

(* C9: the readiness score is an integer from 0 to 100.                    *)
C9_ScoreRange ==
    page.name = "dashboard" => page.readiness \in 0..100

C9_Witness ==
    /\ page.name = "dashboard"
    /\ page.readiness = 100
    /\ RLt(float(300), readiness_blend(page.today, longest_session(page.today)))

(* C10: a window [start, end) with no record dated in it aggregates to     *)
(* zero in every field, whatever is recorded outside it.                   *)
C10_EmptyWindow ==
    \A start, end \in (ThisMonday(today) - 8)..(ThisMonday(today) + 8) :
        RowsDated(start..(end - 1)) = {} => sum_week_metrics(start, end) = ZeroMetrics

C10_Witness ==
    /\ page.name = "dashboard"
    /\ page.metrics = ZeroMetrics
    /\ Cardinality(DOMAIN db) >= 2
    /\ RowsDated({page.week_start - 1}) # {}
    /\ RowsDated({page.week_end + 1}) # {}

====
